---- MODULE Spec2Model ----
(***************************************************************************)
(* Client-side chat state of Daily-Learning-Frontend:                      *)
(*   - components/chat/Chat.tsx       the open thread, compose state,      *)
(*                                    send / delete / load handlers        *)
(*   - components/chat/ChatButton.tsx the unread badge and its 30 s poller *)
(*   - lib/chatApi.ts                 the backend operations they call     *)
(* Every asynchronous handler is split at its awaits: one action for the   *)
(* part that runs at invocation, one per way the awaited call resolves.    *)
(* The backend is the environment: it keeps the stored messages of every   *)
(* conversation and answers requests one at a time.                        *)
(***************************************************************************)
EXTENDS Integers, Sequences, FiniteSets, TLC

(* ------------------------------ bounds --------------------------------- *)
\* sends, conversation loads and deletes issued in one run of the model
MaxSends == 2
MaxLoads == 2
MaxDeletes == 2
\* send, load and delete requests awaiting their response at one time
MaxInFlight == 2
\* poll requests issued by one ChatButton (the immediate one and the ticks)
MaxPolls == 3
\* entries of a polled conversation list, and the largest unreadCount in one
MaxConvs == 2
MaxUnread == 2
\* fetchData calls of one AdminChatDashboard
MaxFetches == 3
\* clicks on the Edit button of a bubble
MaxEdits == 1
\* image messages displayed at one time
MaxImages == 5
\* messages of a rendered thread
MaxThread == 6

(* ------------------------------ values --------------------------------- *)
\* counterparts of the current actor, in the order the backend lists them
UserOrder == << "u1", "u2" >>
Users == {UserOrder[i] : i \in DOMAIN UserOrder}
\* selectedUserId === null
NoUser == "none"
\* deleteConfirmState.messageId === null
NoMessage == 0
\* textarea contents: empty, blank, or text
Bodies == {"", " ", "hi"}
\* selectedFile: null or a staged File
NoFile == "null"
Files == {"doc.pdf", "limit.zip", "big.zip"}
\* the limit of handleFileSelect, in bytes
MaxFileSize == 10 * 1024 * 1024
\* file.size of the files a user may pick: 9 MiB, the limit, one byte more
FileSize ==
  [f \in Files |->
     IF f = "doc.pdf" THEN 9 * 1024 * 1024
     ELSE IF f = "limit.zip" THEN MaxFileSize ELSE MaxFileSize + 1]
\* replyTo: << >> for null, else the one ChatMessage it holds
NoReply == << >>

\* A ChatMessage (lib/chatApi.ts): _id, the counterpart of its conversation,
\* whether the current actor is its sender, its body, its isDeleting flag
\* ("undefined" when the field is absent) and, for a message created by a
\* send of this client, the number of that send() call (0 otherwise).
Msg(id, peer, own, body, file, req) ==
  [id |-> id, peer |-> peer, own |-> own, message |-> body, fileName |-> file,
   isDeleting |-> "undefined", req |-> req]

\* The messages the backend stores when the client starts, per counterpart,
\* in createdAt order.
ServerInit ==
  [u \in Users |->
     IF u = "u1" THEN << Msg(1, "u1", TRUE, "hi", NoFile, 0),
                         Msg(2, "u1", FALSE, "hi", NoFile, 0) >>
                 ELSE << Msg(3, "u2", FALSE, "hi", NoFile, 0) >>]

\* The id the backend gives to the first message it creates.
FirstNewId == Len(ServerInit["u1"]) + Len(ServerInit["u2"]) + 1

VARIABLES
  \* ---- Chat.tsx useState ----
  conversations,      \* Conversation[]: the participants of the sidebar list
  selectedUserId,     \* string | null
  messages,           \* ChatMessage[]: the open thread
  newMessage,         \* textarea value
  selectedFile,       \* File | null
  fileInput,          \* the file held by the hidden <input type="file">, or NoFile
  replyTo,            \* ChatMessage | null: the active reply target
  loading,            \* boolean
  sending,            \* boolean
  deleteConfirmState, \* messageId of the open confirmation modal, or NoMessage
  \* ---- requests of Chat.tsx in flight ----
  sends,              \* chatApi.sendMessage calls awaiting their response
  loads,              \* chatApi.getConversation calls awaiting their response
  dels,               \* chatApi.deleteMessage calls awaiting their response
  dirs,               \* chatApi.getUserConversations calls of fetchConversations
  sendCount, loadCount, delCount, \* calls issued so far
  \* ---- backend ----
  srv,                \* stored messages per counterpart
  nextId,             \* id of the next message the backend creates
  \* ---- ChatButton.tsx ----
  host,               \* "new" (rendered, effect not run), "active", "torn"
  intervalOn,         \* the setInterval timer exists
  isOpen,             \* boolean
  unreadCount,        \* number
  polls,              \* chatApi.getUserConversations calls of fetchUnreadCount
  pollCount,          \* poll requests issued so far
  polled,             \* fetchUnreadCount's `conversations`: the last list fetched
  \* ---- AdminChatDashboard.tsx useState and its fetchData calls ----
  adminConversations, \* Conversation[]
  adminAllUsers,      \* allUsers
  showChat,           \* boolean; selectedUserId is set exactly when it is
  adminLoading,       \* boolean
  refreshing,         \* boolean
  fetches,            \* fetchData calls awaiting Promise.all
  fetchCount,         \* fetchData calls made so far
  \* ---- the message area of Chat.tsx as one render computes it ----
  renderInput,        \* createdAt of the messages, in render order
  timeZone,           \* the viewer's offset from UTC, in hours
  dateSeparators,     \* showDateSeparator of each bubble; << >> before the render
  \* ---- Chat.tsx: the actor, the user list, the edit stub ----
  isAdmin,            \* currentUser.isAdmin
  allUsers,           \* the users fetchAllUsers stored
  showUserList,       \* boolean
  userReqs,           \* chatApi.getAllUsers calls awaiting their response
  editNotices,        \* toasts 'Edit functionality coming soon!' shown so far
  \* ---- AdminChatDashboard.tsx: filter controls ----
  searchTerm,         \* string, as a sequence of characters
  filterType,         \* 'all' | 'unread' | 'recent'
  now,                \* Date.now(), in hours
  \* ---- MessageBubble of an image message, per message id ----
  imageLoading,       \* boolean
  imageError          \* boolean

chatVars == << conversations, selectedUserId, messages, newMessage, selectedFile,
               loading, sending, deleteConfirmState, sends, loads, dels, dirs,
               sendCount, loadCount, delCount, srv, nextId, replyTo, fileInput >>
buttonVars == << host, intervalOn, isOpen, unreadCount, polls, pollCount, polled >>
adminVars == << adminConversations, adminAllUsers, showChat, adminLoading,
                refreshing, fetches, fetchCount >>
dateVars == << renderInput, timeZone, dateSeparators >>
\* Chat.tsx for a privileged actor, and handleEditMessage
userListVars == << isAdmin, allUsers, showUserList, userReqs, editNotices >>
\* the filter controls of AdminChatDashboard.tsx
filterVars == << searchTerm, filterType, now >>
\* the image bubbles of Chat.tsx
imageVars == << imageLoading, imageError >>
extraVars == << userListVars, filterVars, imageVars >>
vars == << chatVars, buttonVars, adminVars, dateVars, extraVars >>

\* requests the user started that still await their response
InFlight == Cardinality(sends) + Cardinality(loads) + Cardinality(dels)

(* ----------------------------- helpers --------------------------------- *)
Range(s) == {s[i] : i \in DOMAIN s}
Ids(s) == {s[i].id : i \in DOMAIN s}

\* messages.find(msg => msg._id === messageId): the first match as a
\* one-element sequence, << >> for undefined
RECURSIVE FindById(_, _)
FindById(s, id) ==
  IF s = << >> THEN << >>
  ELSE IF Head(s).id = id THEN << Head(s) >> ELSE FindById(Tail(s), id)

\* prev.filter(msg => msg._id !== messageId)
FilterOutId(s, id) == SelectSeq(s, LAMBDA m : m.id # id)

\* newMessage.trim(), on the textarea contents of the model
Trim(b) == IF b = " " THEN "" ELSE b

\* The list GET /api/chat/conversations answers with: one entry per
\* counterpart the actor has stored messages with.
DirectoryOf(store) == SelectSeq(UserOrder, LAMBDA u : store[u] # << >>)

\* `if (loading && !selectedConversation) return <LoadingSpinner/>`: the
\* sidebar, the thread and the compose area are rendered only otherwise.
\* selectedConversation is set exactly when selectedUserId is.
UIVisible == ~(loading /\ selectedUserId = NoUser)

(* ------------------------- Chat.tsx: directory -------------------------- *)
\* Faulty variant: the directory is requested twice
FetchConversationsCall_Twice(cont, n) ==
  /\ loading' = TRUE
  /\ dirs' = dirs \cup {[cont |-> cont, n |-> n], [cont |-> "mount", n |-> n]}

\* fetchConversations up to its await; `cont` says who awaits it: the mount
\* effect ("mount", n = 0) or the n-th sendMessage after its response ("send").
FetchConversationsCall(cont, n) ==
  /\ loading' = TRUE
  /\ dirs' = dirs \cup {[cont |-> cont, n |-> n]}

\* The state after the first render and its mount effect.
InitChat ==
  /\ conversations = << >>
  /\ selectedUserId = NoUser
  /\ messages = << >>
  /\ newMessage = ""
  /\ selectedFile = NoFile
  /\ fileInput = NoFile
  /\ replyTo = NoReply
  /\ loading = TRUE
  /\ sending = FALSE
  /\ deleteConfirmState = NoMessage
  /\ sends = {} /\ loads = {} /\ dels = {}
  /\ dirs = {[cont |-> "mount", n |-> 0]}
  /\ sendCount = 0 /\ loadCount = 0 /\ delCount = 0
  /\ srv = ServerInit
  /\ nextId = FirstNewId

InitButton ==
  /\ host = "new"
  /\ intervalOn = FALSE
  /\ isOpen = FALSE
  /\ unreadCount = 0
  /\ polls = {}
  /\ pollCount = 0
  /\ polled = << >>

\* AdminChatDashboard before it is mounted
InitAdmin ==
  /\ adminConversations = << >>
  /\ adminAllUsers = << >>
  /\ showChat = FALSE
  /\ adminLoading = TRUE
  /\ refreshing = FALSE
  /\ fetches = {}
  /\ fetchCount = 0

\* The message area before any thread is rendered
InitDates ==
  /\ renderInput = << >>
  /\ timeZone = 0
  /\ dateSeparators = << >>

\* A non-privileged actor: the mount effect does not call fetchAllUsers.
InitUserList ==
  /\ isAdmin = FALSE
  /\ allUsers = << >>
  /\ showUserList = FALSE
  /\ userReqs = {}
  /\ editNotices = 0

\* The filter controls as useState leaves them
InitFilterControls ==
  /\ searchTerm = << >>
  /\ filterType = "all"
  /\ now = 0

\* No image bubble is rendered.
InitNoImages ==
  /\ imageLoading = << >>
  /\ imageError = << >>

InitExtra == InitUserList /\ InitFilterControls /\ InitNoImages

Init == InitChat /\ InitButton /\ InitAdmin /\ InitDates /\ InitExtra

\* fetchConversations after its await: the response arrived ...
FetchConversationsOk(d) ==
  /\ d \in dirs
  /\ conversations' = DirectoryOf(srv)
  /\ loading' = FALSE
  /\ dirs' = dirs \ {d}
  /\ sending' = IF d.cont = "send" THEN FALSE ELSE sending
  /\ UNCHANGED << selectedUserId, messages, newMessage, selectedFile,
                  deleteConfirmState, sends, loads, dels,
                  sendCount, loadCount, delCount, srv, nextId >>
  /\ UNCHANGED << replyTo, fileInput >>
  /\ UNCHANGED << buttonVars, adminVars, dateVars, extraVars >>

\* ... or the call threw: the catch logs and toasts, the list is kept.
FetchConversationsFail(d) ==
  /\ d \in dirs
  /\ loading' = FALSE
  /\ dirs' = dirs \ {d}
  /\ sending' = IF d.cont = "send" THEN FALSE ELSE sending
  /\ UNCHANGED << conversations, selectedUserId, messages, newMessage, selectedFile,
                  deleteConfirmState, sends, loads, dels,
                  sendCount, loadCount, delCount, srv, nextId >>
  /\ UNCHANGED << replyTo, fileInput >>
  /\ UNCHANGED << buttonVars, adminVars, dateVars, extraVars >>

(* ----------------------- Chat.tsx: fetchConversation -------------------- *)
\* A click on a sidebar entry: fetchConversation(participant._id) up to its await.
FetchConversation(u) ==
  /\ UIVisible
  /\ u \in Range(conversations)
  /\ loadCount < MaxLoads
  /\ InFlight < MaxInFlight
  /\ loadCount' = loadCount + 1
  /\ loading' = TRUE
  /\ loads' = loads \cup {[n |-> loadCount + 1, user |-> u, stage |-> "req", msgs |-> << >>]}
  /\ UNCHANGED << conversations, selectedUserId, messages, newMessage, selectedFile,
                  sending, deleteConfirmState, sends, dels, dirs,
                  sendCount, delCount, srv, nextId >>
  /\ UNCHANGED << replyTo, fileInput >>
  /\ UNCHANGED << buttonVars, adminVars, dateVars, extraVars >>

\* The backend answers GET /api/chat/conversation/:id with what it stores.
ServerGetConversation(l) ==
  /\ l \in loads
  /\ l.stage = "req"
  /\ loads' = (loads \ {l}) \cup {[l EXCEPT !.stage = "ok", !.msgs = srv[l.user]]}
  /\ UNCHANGED << conversations, selectedUserId, messages, newMessage, selectedFile,
                  loading, sending, deleteConfirmState, sends, dels, dirs,
                  sendCount, loadCount, delCount, srv, nextId >>
  /\ UNCHANGED << replyTo, fileInput >>
  /\ UNCHANGED << buttonVars, adminVars, dateVars, extraVars >>

\* fetchConversation after its await: the thread is replaced wholesale.
FetchConversationOk(l) ==
  /\ l \in loads
  /\ l.stage = "ok"
  /\ messages' = l.msgs
  /\ selectedUserId' = l.user
  /\ loading' = FALSE
  /\ loads' = loads \ {l}
  /\ UNCHANGED << conversations, newMessage, selectedFile,
                  sending, deleteConfirmState, sends, dels, dirs,
                  sendCount, loadCount, delCount, srv, nextId >>
  /\ UNCHANGED << replyTo, fileInput >>
  /\ UNCHANGED << buttonVars, adminVars, dateVars, extraVars >>

\* fetchConversation's catch and finally: nothing but loading is written.
FetchConversationFail(l) ==
  /\ l \in loads
  /\ l.stage = "req"
  /\ loading' = FALSE
  /\ loads' = loads \ {l}
  /\ UNCHANGED << conversations, selectedUserId, messages, newMessage, selectedFile,
                  sending, deleteConfirmState, sends, dels, dirs,
                  sendCount, loadCount, delCount, srv, nextId >>
  /\ UNCHANGED << replyTo, fileInput >>
  /\ UNCHANGED << buttonVars, adminVars, dateVars, extraVars >>

(* --------------------------- Chat.tsx: compose -------------------------- *)
\* The compose area is rendered only inside `selectedConversation ? ... `.
ComposeVisible == UIVisible /\ selectedUserId # NoUser

\* textarea onChange
SetNewMessage(b) ==
  /\ ComposeVisible
  /\ b # newMessage
  /\ newMessage' = b
  /\ UNCHANGED << conversations, selectedUserId, messages, selectedFile,
                  loading, sending, deleteConfirmState, sends, loads, dels, dirs,
                  sendCount, loadCount, delCount, srv, nextId >>
  /\ UNCHANGED << replyTo, fileInput >>
  /\ UNCHANGED << buttonVars, adminVars, dateVars, extraVars >>

\* Faulty variant: a file of exactly the limit is rejected too
FileAfterSelect_Strict(prev, f) == IF FileSize[f] >= MaxFileSize THEN prev ELSE f

\* handleFileSelect's effect on selectedFile, for the picked file f:
\* `if (file.size > 10 * 1024 * 1024) { toast.error(...); return; }`
\* then setSelectedFile(file)
FileAfterSelect(prev, f) == IF FileSize[f] > MaxFileSize THEN prev ELSE f

\* The hidden file input changes to f and fires onChange = handleFileSelect.
HandleFileSelect(f) ==
  /\ ComposeVisible
  /\ f # fileInput
  /\ fileInput' = f
  /\ selectedFile' = FileAfterSelect(selectedFile, f)
  /\ UNCHANGED << conversations, selectedUserId, messages, newMessage,
                  loading, sending, deleteConfirmState, sends, loads, dels, dirs,
                  sendCount, loadCount, delCount, srv, nextId >>
  /\ UNCHANGED replyTo
  /\ UNCHANGED << buttonVars, adminVars, dateVars, extraVars >>

\* removeSelectedFile: the button is rendered while a file is staged
RemoveSelectedFile ==
  /\ ComposeVisible
  /\ selectedFile # NoFile
  /\ selectedFile' = NoFile
  /\ fileInput' = NoFile
  /\ UNCHANGED << conversations, selectedUserId, messages, newMessage,
                  loading, sending, deleteConfirmState, sends, loads, dels, dirs,
                  sendCount, loadCount, delCount, srv, nextId >>
  /\ UNCHANGED replyTo
  /\ UNCHANGED << buttonVars, adminVars, dateVars, extraVars >>

(* ---------------------------- Chat.tsx: replyTo ------------------------- *)
\* The Reply button of a bubble: onReply = setReplyTo, with the message.
SetReplyTo(i) ==
  /\ ComposeVisible
  /\ i \in DOMAIN messages
  /\ replyTo' = << messages[i] >>
  /\ UNCHANGED << conversations, selectedUserId, messages, newMessage, selectedFile,
                  loading, sending, deleteConfirmState, sends, loads, dels, dirs,
                  sendCount, loadCount, delCount, srv, nextId, fileInput >>
  /\ UNCHANGED << buttonVars, adminVars, dateVars, extraVars >>

\* The x of the "Replying to" banner: setReplyTo(null)
CancelReply ==
  /\ ComposeVisible
  /\ replyTo # NoReply
  /\ replyTo' = NoReply
  /\ UNCHANGED << conversations, selectedUserId, messages, newMessage, selectedFile,
                  loading, sending, deleteConfirmState, sends, loads, dels, dirs,
                  sendCount, loadCount, delCount, srv, nextId, fileInput >>
  /\ UNCHANGED << buttonVars, adminVars, dateVars, extraVars >>

(* ------------------------ Chat.tsx: handleEditMessage ------------------- *)
\* Faulty variant: the edit loads the message body into the textarea
DraftAfterEdit_Loaded(prev, message) == message.message

\* What handleEditMessage does to newMessage: nothing.
DraftAfterEdit(prev, message) == prev

\* The Edit button of an own bubble: handleEditMessage logs and toasts
\* 'Edit functionality coming soon!'.
HandleEditMessage(i) ==
  /\ ComposeVisible
  /\ i \in DOMAIN messages
  /\ messages[i].own
  /\ editNotices < MaxEdits
  /\ editNotices' = editNotices + 1
  /\ newMessage' = DraftAfterEdit(newMessage, messages[i])
  /\ UNCHANGED << conversations, selectedUserId, messages, selectedFile,
                  loading, sending, deleteConfirmState, sends, loads, dels, dirs,
                  sendCount, loadCount, delCount, srv, nextId, replyTo, fileInput >>
  /\ UNCHANGED << isAdmin, allUsers, showUserList, userReqs >>
  /\ UNCHANGED << buttonVars, adminVars, dateVars, filterVars, imageVars >>

(* -------------------------- Chat.tsx: sendMessage ----------------------- *)
\* Faulty variant: an optimistic entry under a temporary id is appended at invocation
ThreadAtSend_Optimistic(prev) ==
  Append(prev, Msg(0, selectedUserId, TRUE, Trim(newMessage), selectedFile, sendCount + 1))

\* What sendMessage does to the thread before its await: nothing.
ThreadAtSend(prev) == prev

\* Faulty variant: the confirmed message is appended twice
AppendSent_Twice(prev, sentMessage) == Append(Append(prev, sentMessage), sentMessage)

\* setMessages(prev => [...prev, sentMessage])
AppendSent(prev, sentMessage) == Append(prev, sentMessage)

\* Faulty variant: the catch drops the tail entry, as if one had been appended
ThreadAtSendFailure_DropLast(prev) ==
  IF prev = << >> THEN prev ELSE SubSeq(prev, 1, Len(prev) - 1)

\* What sendMessage's catch does to the thread: nothing.
ThreadAtSendFailure(prev) == prev

\* `replyTo?._id`: NoMessage stands for undefined
ReplyToId(target) == IF target = NoReply THEN NoMessage ELSE target[1].id

\* Faulty variant: the catch clears the reply target
ReplyAfterSendFailure_Cleared(prev) == NoReply

\* What sendMessage's catch does to replyTo: nothing.
ReplyAfterSendFailure(prev) == prev

\* Faulty variant: sendMessage without the check of an empty compose state
sendMessage_NoEmptyCheck ==
  /\ selectedUserId # NoUser
  /\ sendCount < MaxSends
  /\ InFlight < MaxInFlight
  /\ sendCount' = sendCount + 1
  /\ sending' = TRUE
  /\ messages' = messages
  /\ sends' = sends \cup {[n |-> sendCount + 1, receiverId |-> selectedUserId,
                           message |-> Trim(newMessage), file |-> selectedFile,
                           replyTo |-> ReplyToId(replyTo),
                           stage |-> "req", result |-> << >>]}
  /\ UNCHANGED << conversations, selectedUserId, newMessage, selectedFile,
                  loading, deleteConfirmState, loads, dels, dirs,
                  loadCount, delCount, srv, nextId >>
  /\ UNCHANGED << replyTo, fileInput >>
  /\ UNCHANGED << buttonVars, adminVars, dateVars, extraVars >>

\* sendMessage up to its await: the guard, setSending(true), the request.
sendMessage ==
  /\ ~((Trim(newMessage) = "" /\ selectedFile = NoFile) \/ selectedUserId = NoUser)
  /\ sendCount < MaxSends
  /\ InFlight < MaxInFlight
  /\ sendCount' = sendCount + 1
  /\ sending' = TRUE
  /\ messages' = ThreadAtSend(messages)
  /\ sends' = sends \cup {[n |-> sendCount + 1, receiverId |-> selectedUserId,
                           message |-> Trim(newMessage), file |-> selectedFile,
                           replyTo |-> ReplyToId(replyTo),
                           stage |-> "req", result |-> << >>]}
  /\ UNCHANGED << conversations, selectedUserId, newMessage, selectedFile,
                  loading, deleteConfirmState, loads, dels, dirs,
                  loadCount, delCount, srv, nextId >>
  /\ UNCHANGED << replyTo, fileInput >>
  /\ UNCHANGED << buttonVars, adminVars, dateVars, extraVars >>

\* The send Button: disabled={(!newMessage.trim() && !selectedFile) || sending}
SendButtonClick ==
  /\ ComposeVisible
  /\ ~((Trim(newMessage) = "" /\ selectedFile = NoFile) \/ sending)
  /\ sendMessage

\* handleKeyPress: Enter without Shift calls sendMessage, whatever `sending` is.
HandleKeyPress ==
  /\ ComposeVisible
  /\ sendMessage

\* The backend handles POST /api/chat/send: it stores the message under a new id.
ServerSendMessage(r) ==
  /\ r \in sends
  /\ r.stage = "req"
  /\ LET m == Msg(nextId, r.receiverId, TRUE, r.message, r.file, r.n)
     IN /\ srv' = [srv EXCEPT ![r.receiverId] = Append(@, m)]
        /\ sends' = (sends \ {r}) \cup {[r EXCEPT !.stage = "ok", !.result = << m >>]}
  /\ nextId' = nextId + 1
  /\ UNCHANGED << conversations, selectedUserId, messages, newMessage, selectedFile,
                  loading, sending, deleteConfirmState, loads, dels, dirs,
                  sendCount, loadCount, delCount >>
  /\ UNCHANGED << replyTo, fileInput >>
  /\ UNCHANGED << buttonVars, adminVars, dateVars, extraVars >>

\* sendMessage from its response to `await fetchConversations()`.
SendMessageOk(r) ==
  /\ r \in sends
  /\ r.stage = "ok"
  /\ messages' = AppendSent(messages, r.result[1])
  /\ newMessage' = ""
  /\ selectedFile' = NoFile
  /\ replyTo' = NoReply
  /\ FetchConversationsCall("send", r.n)
  /\ sends' = sends \ {r}
  /\ UNCHANGED << conversations, selectedUserId, sending, deleteConfirmState,
                  loads, dels, sendCount, loadCount, delCount, srv, nextId >>
  /\ UNCHANGED fileInput
  /\ UNCHANGED << buttonVars, adminVars, dateVars, extraVars >>

\* sendMessage's catch and finally: the request never reached the backend.
SendMessageFail(r) ==
  /\ r \in sends
  /\ r.stage = "req"
  /\ messages' = ThreadAtSendFailure(messages)
  /\ replyTo' = ReplyAfterSendFailure(replyTo)
  /\ sending' = FALSE
  /\ sends' = sends \ {r}
  /\ UNCHANGED << conversations, selectedUserId, newMessage, selectedFile,
                  loading, deleteConfirmState, loads, dels, dirs,
                  sendCount, loadCount, delCount, srv, nextId >>
  /\ UNCHANGED fileInput
  /\ UNCHANGED << buttonVars, adminVars, dateVars, extraVars >>

(* ----------------------- Chat.tsx: handleDeleteMessage ------------------ *)
\* The Delete button of a bubble: rendered for own messages that are neither
\* isDeleting nor isDeleted; onDelete = openDeleteConfirmation.
OpenDeleteConfirmation(id) ==
  /\ ComposeVisible
  /\ \E i \in DOMAIN messages :
        messages[i].id = id /\ messages[i].own /\ messages[i].isDeleting # "true"
  /\ deleteConfirmState # id
  /\ deleteConfirmState' = id
  /\ UNCHANGED << conversations, selectedUserId, messages, newMessage, selectedFile,
                  loading, sending, sends, loads, dels, dirs,
                  sendCount, loadCount, delCount, srv, nextId >>
  /\ UNCHANGED << replyTo, fileInput >>
  /\ UNCHANGED << buttonVars, adminVars, dateVars, extraVars >>

\* ConfirmationModal onClose
CloseDeleteConfirmation ==
  /\ deleteConfirmState # NoMessage
  /\ deleteConfirmState' = NoMessage
  /\ UNCHANGED << conversations, selectedUserId, messages, newMessage, selectedFile,
                  loading, sending, sends, loads, dels, dirs,
                  sendCount, loadCount, delCount, srv, nextId >>
  /\ UNCHANGED << replyTo, fileInput >>
  /\ UNCHANGED << buttonVars, adminVars, dateVars, extraVars >>

\* Faulty variant: the target is kept in place and flagged isDeleting
ThreadAtDelete_Flag(prev, messageId) ==
  [i \in DOMAIN prev |->
     IF prev[i].id = messageId THEN [prev[i] EXCEPT !.isDeleting = "true"] ELSE prev[i]]

\* The optimistic update of handleDeleteMessage:
\* setMessages(prev => prev.filter(msg => msg._id !== messageId))
ThreadAtDelete(prev, messageId) == FilterOutId(prev, messageId)

\* The rollback in handleDeleteMessage's catch; `found` is messages.find(...)
\* over the `messages` of the render the handler was created in.
ThreadAtDeleteFailure(prev, found) ==
  IF found # << >>
    THEN Append(prev, [found[1] EXCEPT !.isDeleting = "false"])
    ELSE prev

\* What handleDeleteMessage does to the thread once deleteMessage resolved.
ThreadAtDeleteSuccess(prev, messageId) == prev

\* handleDeleteMessage (ConfirmationModal onConfirm) up to its await.
HandleDeleteMessage ==
  /\ deleteConfirmState # NoMessage
  /\ delCount < MaxDeletes
  /\ InFlight < MaxInFlight
  /\ delCount' = delCount + 1
  /\ deleteConfirmState' = NoMessage
  /\ messages' = ThreadAtDelete(messages, deleteConfirmState)
  /\ dels' = dels \cup {[n |-> delCount + 1, messageId |-> deleteConfirmState,
                         closure |-> messages, stage |-> "req"]}
  /\ UNCHANGED << conversations, selectedUserId, newMessage, selectedFile,
                  loading, sending, sends, loads, dirs,
                  sendCount, loadCount, srv, nextId >>
  /\ UNCHANGED << replyTo, fileInput >>
  /\ UNCHANGED << buttonVars, adminVars, dateVars, extraVars >>

\* The backend handles DELETE /api/chat/message/:id: it no longer stores the
\* message.
ServerDeleteMessage(d) ==
  /\ d \in dels
  /\ d.stage = "req"
  /\ srv' = [u \in Users |-> FilterOutId(srv[u], d.messageId)]
  /\ dels' = (dels \ {d}) \cup {[d EXCEPT !.stage = "ok"]}
  /\ UNCHANGED << conversations, selectedUserId, messages, newMessage, selectedFile,
                  loading, sending, deleteConfirmState, sends, loads, dirs,
                  sendCount, loadCount, delCount, nextId >>
  /\ UNCHANGED << replyTo, fileInput >>
  /\ UNCHANGED << buttonVars, adminVars, dateVars, extraVars >>

\* handleDeleteMessage after its await: the handler only toasts.
DeleteMessageOk(d) ==
  /\ d \in dels
  /\ d.stage = "ok"
  /\ messages' = ThreadAtDeleteSuccess(messages, d.messageId)
  /\ dels' = dels \ {d}
  /\ UNCHANGED << conversations, selectedUserId, newMessage, selectedFile,
                  loading, sending, deleteConfirmState, sends, loads, dirs,
                  sendCount, loadCount, delCount, srv, nextId >>
  /\ UNCHANGED << replyTo, fileInput >>
  /\ UNCHANGED << buttonVars, adminVars, dateVars, extraVars >>

\* deleteMessage threw (the request never reached the backend): the catch
\* re-adds the message.
DeleteMessageFail(d) ==
  /\ d \in dels
  /\ d.stage = "req"
  /\ messages' = ThreadAtDeleteFailure(messages, FindById(d.closure, d.messageId))
  /\ dels' = dels \ {d}
  /\ UNCHANGED << conversations, selectedUserId, newMessage, selectedFile,
                  loading, sending, deleteConfirmState, sends, loads, dirs,
                  sendCount, loadCount, delCount, srv, nextId >>
  /\ UNCHANGED << replyTo, fileInput >>
  /\ UNCHANGED << buttonVars, adminVars, dateVars, extraVars >>

(* ---------------------------- the Chat component ------------------------ *)
NextChat ==
  \/ \E d \in dirs : FetchConversationsOk(d)
  \/ \E d \in dirs : FetchConversationsFail(d)
  \/ \E u \in Users : FetchConversation(u)
  \/ \E l \in loads : ServerGetConversation(l)
  \/ \E l \in loads : FetchConversationOk(l)
  \/ \E l \in loads : FetchConversationFail(l)
  \/ \E b \in Bodies : SetNewMessage(b)
  \/ SendButtonClick
  \/ HandleKeyPress
  \/ \E r \in sends : ServerSendMessage(r)
  \/ \E r \in sends : SendMessageOk(r)
  \/ \E r \in sends : SendMessageFail(r)
  \/ \E id \in 1 .. (nextId - 1) : OpenDeleteConfirmation(id)
  \/ CloseDeleteConfirmation
  \/ HandleDeleteMessage
  \/ \E d \in dels : ServerDeleteMessage(d)
  \/ \E d \in dels : DeleteMessageOk(d)
  \/ \E d \in dels : DeleteMessageFail(d)

Spec == Init /\ [][NextChat]_vars

(* ------------------- the Chat component with a thread open -------------- *)
\* The state after the user opened the conversation with u and its load
\* succeeded; from here only the compose area and sendMessage are exercised.
InitOpen ==
  /\ \E u \in Users :
        /\ selectedUserId = u
        /\ messages = ServerInit[u]
  /\ conversations = DirectoryOf(ServerInit)
  /\ newMessage = ""
  /\ selectedFile = NoFile
  /\ fileInput = NoFile
  /\ replyTo = NoReply
  /\ loading = FALSE
  /\ sending = FALSE
  /\ deleteConfirmState = NoMessage
  /\ sends = {} /\ loads = {} /\ dels = {} /\ dirs = {}
  /\ sendCount = 0 /\ loadCount = 1 /\ delCount = 0
  /\ srv = ServerInit
  /\ nextId = FirstNewId

InitSend == InitOpen /\ InitButton /\ InitAdmin /\ InitDates /\ InitExtra

NextSend ==
  \/ \E b \in Bodies : SetNewMessage(b)
  \/ \E f \in Files : HandleFileSelect(f)
  \/ RemoveSelectedFile
  \/ SendButtonClick
  \/ HandleKeyPress
  \/ \E r \in sends : ServerSendMessage(r)
  \/ \E r \in sends : SendMessageOk(r)
  \/ \E r \in sends : SendMessageFail(r)
  \/ \E d \in dirs : FetchConversationsOk(d)
  \/ \E d \in dirs : FetchConversationsFail(d)

SpecSend == InitSend /\ [][NextSend]_vars

(* ------------- the Chat component with a thread open: replies ----------- *)
\* From the same state: reply targets, one further conversation load, sends.
NextReply ==
  \/ \E b \in Bodies : SetNewMessage(b)
  \/ \E i \in 1 .. Len(messages) : SetReplyTo(i)
  \/ CancelReply
  \/ \E i \in 1 .. Len(messages) : HandleEditMessage(i)
  \/ \E u \in Users : FetchConversation(u)
  \/ \E l \in loads : ServerGetConversation(l)
  \/ \E l \in loads : FetchConversationOk(l)
  \/ \E l \in loads : FetchConversationFail(l)
  \/ SendButtonClick
  \/ HandleKeyPress
  \/ \E r \in sends : ServerSendMessage(r)
  \/ \E r \in sends : SendMessageOk(r)
  \/ \E r \in sends : SendMessageFail(r)
  \/ \E d \in dirs : FetchConversationsOk(d)
  \/ \E d \in dirs : FetchConversationsFail(d)

SpecReply == InitSend /\ [][NextReply]_vars

(* ------- the Chat component with a thread open: conversation loads ----- *)
\* The conversation with u is open; loads are counted from here on, so that
\* two further conversations can be selected one after the other.
InitLoad ==
  /\ \E u \in Users :
        /\ selectedUserId = u
        /\ messages = ServerInit[u]
  /\ conversations = DirectoryOf(ServerInit)
  /\ newMessage = ""
  /\ selectedFile = NoFile
  /\ fileInput = NoFile
  /\ replyTo = NoReply
  /\ loading = FALSE
  /\ sending = FALSE
  /\ deleteConfirmState = NoMessage
  /\ sends = {} /\ loads = {} /\ dels = {} /\ dirs = {}
  /\ sendCount = 0 /\ loadCount = 0 /\ delCount = 0
  /\ srv = ServerInit
  /\ nextId = FirstNewId
  /\ InitButton /\ InitAdmin /\ InitDates /\ InitExtra

\* Sidebar clicks and deletes; every load is answered by the backend.
NextLoad ==
  \/ \E u \in Users : FetchConversation(u)
  \/ \E l \in loads : ServerGetConversation(l)
  \/ \E l \in loads : FetchConversationOk(l)
  \/ \E id \in 1 .. (nextId - 1) : OpenDeleteConfirmation(id)
  \/ CloseDeleteConfirmation
  \/ HandleDeleteMessage
  \/ \E d \in dels : ServerDeleteMessage(d)
  \/ \E d \in dels : DeleteMessageOk(d)
  \/ \E d \in dels : DeleteMessageFail(d)

SpecLoad == InitLoad /\ [][NextLoad]_vars

(* ---------------- Chat.tsx: the user list of a privileged actor -------- *)
\* Faulty variant: the mount effect calls fetchAllUsers for every actor
UserRequestsAtMount_Always(admin) == {[n |-> 1]}

\* `if (currentUser.isAdmin) { fetchAllUsers(); }` in the mount effect
UserRequestsAtMount(admin) == IF admin THEN {[n |-> 1]} ELSE {}

\* The backend's stored messages when the actor has none with u2 yet.
ServerInitNew == [ServerInit EXCEPT !["u2"] = << >>]

\* The Chat of either kind of actor after its first render and mount effect.
InitUsers ==
  /\ isAdmin \in BOOLEAN
  /\ userReqs = UserRequestsAtMount(isAdmin)
  /\ allUsers = << >>
  /\ showUserList = FALSE
  /\ editNotices = 0
  /\ conversations = << >>
  /\ selectedUserId = NoUser
  /\ messages = << >>
  /\ newMessage = ""
  /\ selectedFile = NoFile
  /\ fileInput = NoFile
  /\ replyTo = NoReply
  /\ loading = TRUE
  /\ sending = FALSE
  /\ deleteConfirmState = NoMessage
  /\ sends = {} /\ loads = {} /\ dels = {}
  /\ dirs = {[cont |-> "mount", n |-> 0]}
  /\ sendCount = 0 /\ loadCount = 0 /\ delCount = 0
  /\ srv = ServerInitNew
  /\ nextId = FirstNewId
  /\ InitButton /\ InitAdmin /\ InitDates /\ InitFilterControls /\ InitNoImages

\* fetchAllUsers after its await: setAllUsers(response.data.data || [])
FetchAllUsersOk(q) ==
  /\ q \in userReqs
  /\ allUsers' = UserOrder
  /\ userReqs' = userReqs \ {q}
  /\ UNCHANGED << isAdmin, showUserList, editNotices >>
  /\ UNCHANGED << chatVars, buttonVars, adminVars, dateVars, filterVars, imageVars >>

\* fetchAllUsers' catch: the error is logged.
FetchAllUsersFail(q) ==
  /\ q \in userReqs
  /\ userReqs' = userReqs \ {q}
  /\ UNCHANGED << isAdmin, allUsers, showUserList, editNotices >>
  /\ UNCHANGED << chatVars, buttonVars, adminVars, dateVars, filterVars, imageVars >>

\* The New Chat button, rendered for currentUser.isAdmin:
\* setShowUserList(!showUserList)
ToggleUserList ==
  /\ UIVisible
  /\ isAdmin
  /\ showUserList' = ~showUserList
  /\ UNCHANGED << isAdmin, allUsers, userReqs, editNotices >>
  /\ UNCHANGED << chatVars, buttonVars, adminVars, dateVars, filterVars, imageVars >>

\* UserListModal, rendered while showUserList && currentUser.isAdmin: onClose
CloseUserList ==
  /\ UIVisible
  /\ showUserList /\ isAdmin
  /\ showUserList' = FALSE
  /\ UNCHANGED << isAdmin, allUsers, userReqs, editNotices >>
  /\ UNCHANGED << chatVars, buttonVars, adminVars, dateVars, filterVars, imageVars >>

\* startNewConversation: setMessages([])
ThreadAtStart(prev) == << >>

\* A row of the UserListModal: onSelectUser = startNewConversation(user._id)
StartNewConversation(u) ==
  /\ UIVisible
  /\ showUserList /\ isAdmin
  /\ u \in Range(allUsers)
  /\ selectedUserId' = u
  /\ messages' = ThreadAtStart(messages)
  /\ showUserList' = FALSE
  /\ UNCHANGED << conversations, newMessage, selectedFile, loading, sending,
                  deleteConfirmState, sends, loads, dels, dirs,
                  sendCount, loadCount, delCount, srv, nextId, replyTo, fileInput >>
  /\ UNCHANGED << isAdmin, allUsers, userReqs, editNotices >>
  /\ UNCHANGED << buttonVars, adminVars, dateVars, filterVars, imageVars >>

NextUsers ==
  \/ \E q \in userReqs : FetchAllUsersOk(q)
  \/ \E q \in userReqs : FetchAllUsersFail(q)
  \/ ToggleUserList
  \/ CloseUserList
  \/ \E u \in Users : StartNewConversation(u)
  \/ \E d \in dirs : FetchConversationsOk(d)
  \/ \E d \in dirs : FetchConversationsFail(d)
  \/ \E u \in Users : FetchConversation(u)
  \/ \E l \in loads : ServerGetConversation(l)
  \/ \E l \in loads : FetchConversationOk(l)
  \/ \E l \in loads : FetchConversationFail(l)
  \/ \E b \in Bodies : SetNewMessage(b)
  \/ SendButtonClick
  \/ HandleKeyPress
  \/ \E r \in sends : ServerSendMessage(r)
  \/ \E r \in sends : SendMessageOk(r)
  \/ \E r \in sends : SendMessageFail(r)

SpecUsers == InitUsers /\ [][NextUsers]_vars

(* ------------------------------ ChatButton.tsx -------------------------- *)
\* One entry of the list GET /api/chat/conversations answers with, as far as
\* fetchUnreadCount reads it.
ConvEntries == [participant : Users, unreadCount : 0 .. MaxUnread]

\* The lists a poll may be answered with.
PollLists == UNION {[1 .. k -> ConvEntries] : k \in 0 .. MaxConvs}

\* conversations.reduce((sum, conv) => sum + conv.unreadCount, 0)
RECURSIVE TotalUnread(_)
TotalUnread(list) ==
  IF list = << >> THEN 0 ELSE Head(list).unreadCount + TotalUnread(Tail(list))

\* fetchUnreadCount up to its await
FetchUnreadCountCall ==
  /\ pollCount' = pollCount + 1
  /\ polls' = polls \cup {[n |-> pollCount + 1, stage |-> "req"]}

\* Faulty variant: the cleanup does not clear the timer
IntervalAfterCleanup_Leaked == intervalOn

\* What the effect's cleanup leaves of the timer: clearInterval(interval).
IntervalAfterCleanup == FALSE

\* What fetchUnreadCount's catch sets the badge to: setUnreadCount(0).
UnreadAfterFailure(count) == 0

\* Faulty variant: an update arriving after the unmount is applied
SetUnreadCount_Unmounted(count) == count

\* setUnreadCount(count), the setter of useState: React discards a state
\* update of a component that has unmounted (fetchUnreadCount itself has no
\* mounted check and calls the setter whenever its await settles).
SetUnreadCount(count) == IF host = "active" THEN count ELSE unreadCount

\* Faulty variant: opening the chat keeps the badge
UnreadAfterOpen_Kept == unreadCount

\* handleToggleChat with !isOpen: setUnreadCount(0)
UnreadAfterOpen == 0

\* The mount effect: fetchUnreadCount(), then setInterval(fetchUnreadCount, 30000).
MountButton ==
  /\ host = "new"
  /\ host' = "active"
  /\ FetchUnreadCountCall
  /\ intervalOn' = TRUE
  /\ UNCHANGED << isOpen, unreadCount, polled >>
  /\ UNCHANGED << chatVars, adminVars, dateVars, extraVars >>

\* The interval fires.
IntervalTick ==
  /\ intervalOn
  /\ pollCount < MaxPolls
  /\ FetchUnreadCountCall
  /\ UNCHANGED << host, intervalOn, isOpen, unreadCount, polled >>
  /\ UNCHANGED << chatVars, adminVars, dateVars, extraVars >>

\* The component unmounts: the effect's cleanup runs.
UnmountButton ==
  /\ host = "active"
  /\ host' = "torn"
  /\ intervalOn' = IntervalAfterCleanup
  /\ UNCHANGED << isOpen, unreadCount, polls, pollCount, polled >>
  /\ UNCHANGED << chatVars, adminVars, dateVars, extraVars >>

\* The backend answers the poll ...
ServerGetUserConversations(p) ==
  /\ p \in polls
  /\ p.stage = "req"
  /\ polls' = (polls \ {p}) \cup {[p EXCEPT !.stage = "ok"]}
  /\ UNCHANGED << host, intervalOn, isOpen, unreadCount, pollCount, polled >>
  /\ UNCHANGED << chatVars, adminVars, dateVars, extraVars >>

\* ... or the request fails.
PollRequestFails(p) ==
  /\ p \in polls
  /\ p.stage = "req"
  /\ polls' = (polls \ {p}) \cup {[p EXCEPT !.stage = "err"]}
  /\ UNCHANGED << host, intervalOn, isOpen, unreadCount, pollCount, polled >>
  /\ UNCHANGED << chatVars, adminVars, dateVars, extraVars >>

\* fetchUnreadCount after its await, the response carrying `list`. React
\* drops a state update of a component that has unmounted.
FetchUnreadCountOk(p, list) ==
  /\ p \in polls
  /\ p.stage = "ok"
  /\ polled' = list
  /\ unreadCount' = SetUnreadCount(TotalUnread(list))
  /\ polls' = polls \ {p}
  /\ UNCHANGED << host, intervalOn, isOpen, pollCount >>
  /\ UNCHANGED << chatVars, adminVars, dateVars, extraVars >>

\* fetchUnreadCount's catch
FetchUnreadCountFail(p) ==
  /\ p \in polls
  /\ p.stage = "err"
  /\ unreadCount' = SetUnreadCount(UnreadAfterFailure(unreadCount))
  /\ polls' = polls \ {p}
  /\ UNCHANGED << host, intervalOn, isOpen, pollCount, polled >>
  /\ UNCHANGED << chatVars, adminVars, dateVars, extraVars >>

\* handleToggleChat: the floating button is rendered only while !isOpen.
HandleToggleChat ==
  /\ host = "active"
  /\ ~isOpen
  /\ isOpen' = ~isOpen
  /\ unreadCount' = SetUnreadCount(UnreadAfterOpen)
  /\ UNCHANGED << host, intervalOn, polls, pollCount, polled >>
  /\ UNCHANGED << chatVars, adminVars, dateVars, extraVars >>

\* <Chat onBack={() => setIsOpen(false)} />
OnBack ==
  /\ host = "active"
  /\ isOpen
  /\ isOpen' = FALSE
  /\ UNCHANGED << host, intervalOn, unreadCount, polls, pollCount, polled >>
  /\ UNCHANGED << chatVars, adminVars, dateVars, extraVars >>

NextButton ==
  \/ MountButton
  \/ IntervalTick
  \/ UnmountButton
  \/ \E p \in polls : ServerGetUserConversations(p)
  \/ \E p \in polls : PollRequestFails(p)
  \/ \E p \in polls, list \in PollLists : FetchUnreadCountOk(p, list)
  \/ \E p \in polls : FetchUnreadCountFail(p)
  \/ HandleToggleChat
  \/ OnBack

SpecPoll == Init /\ [][NextButton]_vars

(* ------------------------- AdminChatDashboard.tsx ----------------------- *)
\* fetchData before its await: setConversations([]) ("Initialize with empty
\* arrays first")
ListAtFetchStart(prev) == << >>

\* fetchData's catch: setConversations([])
ListAtFetchFailure(prev) == << >>

\* fetchData up to its await on Promise.all; `by` names the caller.
FetchDataCall(by) ==
  /\ fetchCount' = fetchCount + 1
  /\ adminLoading' = TRUE
  /\ adminConversations' = ListAtFetchStart(adminConversations)
  /\ adminAllUsers' = << >>
  /\ fetches' = fetches \cup {[n |-> fetchCount + 1, by |-> by]}

\* The dashboard after its first render and mount effect.
InitAdminMounted ==
  /\ adminConversations = << >>
  /\ adminAllUsers = << >>
  /\ showChat = FALSE
  /\ adminLoading = TRUE
  /\ refreshing = FALSE
  /\ fetches = {[n |-> 1, by |-> "mount"]}
  /\ fetchCount = 1
  /\ InitChat /\ InitButton /\ InitDates /\ InitExtra

\* The lists and the Refresh button are rendered only when neither the Chat
\* nor the loading spinner is returned.
DashboardVisible == ~showChat /\ ~adminLoading

\* handleRefresh up to fetchData's await; the button is disabled while refreshing.
HandleRefresh ==
  /\ DashboardVisible
  /\ ~refreshing
  /\ fetchCount < MaxFetches
  /\ refreshing' = TRUE
  /\ FetchDataCall("refresh")
  /\ UNCHANGED showChat
  /\ UNCHANGED << chatVars, buttonVars, dateVars, extraVars >>

\* startChat(userId), from a row of either list
StartChat(u) ==
  /\ DashboardVisible
  /\ \/ \E i \in DOMAIN adminConversations : adminConversations[i].participant = u
     \/ \E i \in DOMAIN adminAllUsers : adminAllUsers[i] = u
  /\ showChat' = TRUE
  /\ UNCHANGED << adminConversations, adminAllUsers, adminLoading, refreshing,
                  fetches, fetchCount >>
  /\ UNCHANGED << chatVars, buttonVars, dateVars, extraVars >>

\* The onBack handed to <Chat/>: back to the lists, and fetchData().
ChatOnBack ==
  /\ showChat
  /\ fetchCount < MaxFetches
  /\ showChat' = FALSE
  /\ FetchDataCall("back")
  /\ UNCHANGED refreshing
  /\ UNCHANGED << chatVars, buttonVars, dateVars, extraVars >>

\* fetchData after its await, both requests answered; handleRefresh, when it
\* is the caller, goes on to setRefreshing(false).
FetchDataOk(f, list) ==
  /\ f \in fetches
  /\ adminConversations' = list
  /\ adminAllUsers' = UserOrder
  /\ adminLoading' = FALSE
  /\ refreshing' = IF f.by = "refresh" THEN FALSE ELSE refreshing
  /\ fetches' = fetches \ {f}
  /\ UNCHANGED << showChat, fetchCount >>
  /\ UNCHANGED << chatVars, buttonVars, dateVars, extraVars >>

\* fetchData's catch and finally: one of the two requests failed.
FetchDataFail(f) ==
  /\ f \in fetches
  /\ adminConversations' = ListAtFetchFailure(adminConversations)
  /\ adminAllUsers' = << >>
  /\ adminLoading' = FALSE
  /\ refreshing' = IF f.by = "refresh" THEN FALSE ELSE refreshing
  /\ fetches' = fetches \ {f}
  /\ UNCHANGED << showChat, fetchCount >>
  /\ UNCHANGED << chatVars, buttonVars, dateVars, extraVars >>

NextAdmin ==
  \/ HandleRefresh
  \/ \E u \in Users : StartChat(u)
  \/ ChatOnBack
  \/ \E f \in fetches, list \in PollLists : FetchDataOk(f, list)
  \/ \E f \in fetches : FetchDataFail(f)

SpecAdmin == InitAdminMounted /\ [][NextAdmin]_vars

(* ---------------------- Chat.tsx: date separators ---------------------- *)
\* createdAt of a message, in hours since the epoch (UTC), and the offsets of
\* the viewer's time zone: the hours 22, 23 and 24 are two days in either.
Timestamps == {22, 23, 24}
TimeZones == {0, 1}

\* new Date(createdAt).toDateString(): the calendar day in the viewer's zone
ToDateString(createdAt) == (createdAt + timeZone) \div 24

\* messages[index - 1]: << >> for undefined
PreviousMessage(s, i) == IF (i - 1) \in DOMAIN s THEN << s[i - 1] >> ELSE << >>

\* Faulty variant: the instants are compared, not their calendar days
shouldShowDateSeparator_ByInstant(currentMessage, previousMessage) ==
  IF previousMessage = << >> THEN TRUE ELSE currentMessage # previousMessage[1]

\* shouldShowDateSeparator(currentMessage, previousMessage?)
shouldShowDateSeparator(currentMessage, previousMessage) ==
  IF previousMessage = << >> THEN TRUE
  ELSE ToDateString(currentMessage) # ToDateString(previousMessage[1])

\* A thread of any createdAt values, in any order, is about to be rendered.
InitRender ==
  /\ renderInput \in UNION {[1 .. k -> Timestamps] : k \in 0 .. MaxThread}
  /\ timeZone \in TimeZones
  /\ dateSeparators = << >>
  /\ InitChat /\ InitButton /\ InitAdmin /\ InitExtra

\* messages.map((message, index) => <MessageBubble showDateSeparator={...} />)
RenderMessages ==
  /\ dateSeparators' =
       [i \in DOMAIN renderInput |->
          shouldShowDateSeparator(renderInput[i], PreviousMessage(renderInput, i))]
  /\ UNCHANGED << renderInput, timeZone >>
  /\ UNCHANGED << chatVars, buttonVars, adminVars, extraVars >>

NextRender == RenderMessages

SpecRender == InitRender /\ [][NextRender]_vars

(* -------------------- Chat.tsx: MessageBubble images -------------------- *)
\* The image messages on display; each MessageBubble, keyed by message id,
\* has its own imageLoading and imageError.
ImageIds == 1 .. MaxImages

\* useState(true) and useState(false) of every bubble
InitImages ==
  /\ imageLoading = [i \in ImageIds |-> TRUE]
  /\ imageError = [i \in ImageIds |-> FALSE]
  /\ InitOpen /\ InitButton /\ InitAdmin /\ InitDates
  /\ InitUserList /\ InitFilterControls

\* Faulty variant: the retry leaves imageError set
ErrorAfterRetry_Kept == TRUE

\* The Retry button: setImageError(false) ...
ErrorAfterRetry == FALSE

\* The <img> is rendered while !imageError; the browser reports the outcome
\* of a load once: onLoad.
ImageOnLoad(i) ==
  /\ imageLoading[i] /\ ~imageError[i]
  /\ imageLoading' = [imageLoading EXCEPT ![i] = FALSE]
  /\ imageError' = [imageError EXCEPT ![i] = FALSE]
  /\ UNCHANGED << chatVars, buttonVars, adminVars, dateVars, userListVars, filterVars >>

\* onError
ImageOnError(i) ==
  /\ imageLoading[i] /\ ~imageError[i]
  /\ imageError' = [imageError EXCEPT ![i] = TRUE]
  /\ imageLoading' = [imageLoading EXCEPT ![i] = FALSE]
  /\ UNCHANGED << chatVars, buttonVars, adminVars, dateVars, userListVars, filterVars >>

\* The Retry button, rendered while imageError: ... and setImageLoading(true)
ImageRetry(i) ==
  /\ imageError[i]
  /\ imageError' = [imageError EXCEPT ![i] = ErrorAfterRetry]
  /\ imageLoading' = [imageLoading EXCEPT ![i] = TRUE]
  /\ UNCHANGED << chatVars, buttonVars, adminVars, dateVars, userListVars, filterVars >>

NextImages ==
  \/ \E i \in ImageIds : ImageOnLoad(i)
  \/ \E i \in ImageIds : ImageOnError(i)
  \/ \E i \in ImageIds : ImageRetry(i)

SpecImages == InitImages /\ [][NextImages]_vars

(* ------------- AdminChatDashboard.tsx: search and filter ------------- *)
\* Text is a sequence of one-character strings.
\* participant.name of the two users: the second has none (undefined)
ParticipantName(u) == IF u = "u1" THEN << "A", "l" >> ELSE << >>

\* participant.email
ParticipantEmail(u) ==
  IF u = "u1" THEN << "a", "l", "@", "x" >> ELSE << "B", "o", "@", "x" >>

\* What the admin may type into the search box
SearchTerms == {<< >>, << "A" >>, << "b", "o" >>, << "l", "@" >>, << "z" >>}
FilterTypes == {"all", "unread", "recent"}

\* lastMessage.createdAt and Date.now(), in hours since the epoch
CreatedAts == {24, 25}
Nows == {48, 49}

\* 24 * 60 * 60 * 1000 ms, in hours
OneDay == 24

\* String.prototype.toLowerCase
ToLowerCase(str) ==
  [i \in DOMAIN str |->
     IF str[i] = "A" THEN "a" ELSE IF str[i] = "B" THEN "b" ELSE str[i]]

\* String.prototype.includes
Includes(str, sub) ==
  \E k \in 0 .. (Len(str) - Len(sub)) : SubSeq(str, k + 1, k + Len(sub)) = sub

\* email.split('@')[0]
RECURSIVE BeforeAt(_)
BeforeAt(str) ==
  IF str = << >> \/ Head(str) = "@" THEN << >>
  ELSE << Head(str) >> \o BeforeAt(Tail(str))

\* conv.participant?.name || conv.participant?.email?.split('@')[0] || ''
DisplayName(conv) ==
  IF ParticipantName(conv.participant) # << >>
  THEN ParticipantName(conv.participant)
  ELSE BeforeAt(ParticipantEmail(conv.participant))

\* matchesSearch
MatchesSearch(conv, term) ==
  \/ Includes(ToLowerCase(DisplayName(conv)), ToLowerCase(term))
  \/ Includes(ToLowerCase(ParticipantEmail(conv.participant)), ToLowerCase(term))

\* conv.lastMessage?.createdAt: << >> when the entry has no last message
LastCreatedAt(conv) ==
  IF "lastMessage" \in DOMAIN conv THEN conv.lastMessage ELSE << >>

\* Faulty variant: a message exactly one day old still counts as recent
IsRecent_Inclusive(createdAt, nowAt) == createdAt >= nowAt - OneDay

\* new Date(createdAt) > oneDayAgo
IsRecent(createdAt, nowAt) == createdAt > nowAt - OneDay

\* The callback of conversations.filter
KeepsConversation(conv, term, type, nowAt) ==
  CASE type = "unread" -> MatchesSearch(conv, term) /\ conv.unreadCount > 0
    [] type = "recent" ->
         /\ MatchesSearch(conv, term)
         /\ LastCreatedAt(conv) # << >>
         /\ IsRecent(LastCreatedAt(conv)[1], nowAt)
    [] OTHER -> MatchesSearch(conv, term)

\* const filteredConversations = conversations.filter(...), computed on render
filteredConversations ==
  SelectSeq(adminConversations,
            LAMBDA conv : KeepsConversation(conv, searchTerm, filterType, now))

\* Conversation entries as the backend lists them, with or without a last
\* message
FilterEntries ==
  [participant : Users, unreadCount : 0 .. MaxUnread,
   lastMessage : {<< >>} \cup {<< t >> : t \in CreatedAts}]

\* The dashboard after its first fetch was handled, showing some list
InitFilter ==
  /\ adminConversations \in UNION {[1 .. k -> FilterEntries] : k \in 0 .. MaxConvs}
  /\ adminAllUsers = UserOrder
  /\ showChat = FALSE
  /\ adminLoading = FALSE
  /\ refreshing = FALSE
  /\ fetches = {}
  /\ fetchCount = 1
  /\ searchTerm = << >>
  /\ filterType = "all"
  /\ now \in Nows
  /\ InitChat /\ InitButton /\ InitDates /\ InitUserList /\ InitNoImages

\* onChange of the search box: setSearchTerm(e.target.value)
SetSearchTerm(t) ==
  /\ DashboardVisible
  /\ t # searchTerm
  /\ searchTerm' = t
  /\ UNCHANGED << filterType, now >>
  /\ UNCHANGED << chatVars, buttonVars, adminVars, dateVars, userListVars, imageVars >>

\* onChange of the select: setFilterType(e.target.value)
SetFilterType(f) ==
  /\ DashboardVisible
  /\ f # filterType
  /\ filterType' = f
  /\ UNCHANGED << searchTerm, now >>
  /\ UNCHANGED << chatVars, buttonVars, adminVars, dateVars, userListVars, imageVars >>

NextFilter ==
  \/ \E t \in SearchTerms : SetSearchTerm(t)
  \/ \E f \in FilterTypes : SetFilterType(f)

SpecFilter == InitFilter /\ [][NextFilter]_vars

(* ================================ claims ================================ *)
NoDuplicateIds(s) == \A i, j \in DOMAIN s : s[i].id = s[j].id => i = j

\* A step in which sendMessage passed its guard and issued its request.
SendInvokedStep == sendCount' = sendCount + 1
\* A step in which the catch of the send call r ran.
SendFailedStep(r) == r \in sends /\ r.stage = "req" /\ \A q \in sends' : q.n # r.n
\* A step in which the response of the send call r was handled.
SendSucceededStep(r) == r \in sends /\ r.stage = "ok" /\ \A q \in sends' : q.n # r.n

\* C1 (SpecSend): with a conversation open and only send() calls made, once
\* no send request is outstanding the thread has gained exactly as many
\* entries as sends succeeded (the backend created nextId - FirstNewId
\* messages, each delivered), no id occurs twice, and every entry is a message
\* the backend stores: no optimistic entry is left over.
C1_GainEqualsSuccessfulSends ==
  sends = {} =>
    /\ Len(messages) = Len(ServerInit[selectedUserId]) + (nextId - FirstNewId)
    /\ NoDuplicateIds(messages)
    /\ \A i \in DOMAIN messages : messages[i] \in Range(srv[selectedUserId])

\* Two sends were made, one succeeded and one failed, and both have completed.
C1_Witness ==
  /\ sends = {}
  /\ sendCount >= 2
  /\ nextId = FirstNewId + 1
  /\ Len(messages) = Len(ServerInit[selectedUserId]) + 1

\* C2: neither the invocation of a send() nor the handling of its failure
\* changes the thread: count, order and content stay as they were.
C2_FailedSendLeavesThread ==
  [][/\ SendInvokedStep => messages' = messages
     /\ \A r \in sends : SendFailedStep(r) => messages' = messages]_vars

\* Every send made so far has failed and the loaded thread is intact.
C2_Witness ==
  /\ sendCount >= 1
  /\ sends = {}
  /\ nextId = FirstNewId
  /\ messages = ServerInit["u1"]

\* C3 (SpecSend), as claimed: messages sent by this client appear in the
\* thread in the order their send() calls were made, whatever order the
\* responses arrive in.
C3_SendOrderKept ==
  \A i, j \in DOMAIN messages :
     (messages[i].req > 0 /\ messages[i].req < messages[j].req) => i < j

DeleteInvokedStep == delCount' = delCount + 1
\* A step in which the catch of the delete call d ran.
DeleteFailedStep(d) == d \in dels /\ d.stage = "req" /\ \A q \in dels' : q.n # d.n
\* A step in which the delete call d resolved.
DeleteSucceededStep(d) == d \in dels /\ d.stage = "ok" /\ \A q \in dels' : q.n # d.n

\* What a bubble shows of a message: an absent isDeleting and a false one
\* render alike.
Shown(s) ==
  [i \in DOMAIN s |->
     [s[i] EXCEPT !.isDeleting = IF @ = "true" THEN "true" ELSE "falsy"]]

\* C5, as claimed: when a delete fails and nothing else touched the thread
\* since it was invoked, the thread is again what it was right before the
\* delete: same entries, same order, same content.
C5_FailedDeleteRestoresThread ==
  [][\A d \in dels :
       (DeleteFailedStep(d) /\ messages = FilterOutId(d.closure, d.messageId))
          => Shown(messages') = Shown(d.closure)]_vars

Stored(id) == \E u \in Users : id \in Ids(srv[u])

\* A delete of id has been answered successfully: the backend removed the
\* message and no handled delete of it still awaits delivery.
DeleteSucceeded(id) ==
  /\ id \in 1 .. (nextId - 1)
  /\ ~Stored(id)
  /\ \A d \in dels : d.messageId = id => d.stage = "req"

\* C7, as claimed: confirming a delete of an id whose delete has already
\* succeeded issues no request and leaves the thread as it is.
C7_SecondDeleteIsNoOp ==
  [][(/\ deleteConfirmState # NoMessage
      /\ DeleteSucceeded(deleteConfirmState)
      /\ deleteConfirmState' = NoMessage)
        => (delCount' = delCount /\ dels' = dels /\ messages' = messages)]_vars

\* A step in which the catch of the poll p ran.
PollFailedStep(p) == p \in polls /\ p.stage = "err" /\ p \notin polls'
\* A step in which the response of the poll p was handled.
PollSucceededStep(p) == p \in polls /\ p.stage = "ok" /\ p \notin polls'

\* C8 (SpecPoll), as claimed: handling a failed poll leaves the displayed
\* unread count as it was.
C8_FailedPollKeepsCount ==
  [][\A p \in polls : PollFailedStep(p) => unreadCount' = unreadCount]_vars

\* The counterparts of a fetched list, and the unreadCounts a list gives one.
Counterparts(list) == {list[i].participant : i \in DOMAIN list}
CountsOf(list, u) == {list[i].unreadCount : i \in {j \in DOMAIN list : list[j].participant = u}}

RECURSIVE SumOver(_, _)
SumOver(f, S) ==
  IF S = {} THEN 0
  ELSE LET u == CHOOSE x \in S : TRUE IN f[u] + SumOver(f, S \ {u})

\* The totals that count every counterpart of the list once: one of its
\* entries each.
OnceTotals(list) ==
  {SumOver(f, Counterparts(list)) :
     f \in {g \in [Counterparts(list) -> 0 .. MaxUnread] :
              \A u \in Counterparts(list) : g[u] \in CountsOf(list, u)}}

\* C9 (SpecPoll), as claimed: after a successful refresh the displayed count
\* is the sum of unreadCount over the distinct counterparts of the fetched
\* list, a counterpart listed more than once being counted once.
C9_CountsEachCounterpartOnce ==
  [][\A p \in polls :
       (PollSucceededStep(p) /\ host = "active")
          => unreadCount' \in OnceTotals(polled')]_vars

\* C10 (SpecPoll): activation issues one poll at once and starts the timer;
\* poll requests are issued one at a time and only while the host is active;
\* the timer exists exactly while the host is active, so after deactivation
\* no poll request is issued.
C10_PollSchedule ==
  /\ [](host = "active" => pollCount >= 1)
  /\ [](intervalOn <=> host = "active")
  /\ [][/\ (host = "new" /\ host' = "active") => pollCount' = pollCount + 1
        /\ pollCount' # pollCount => (pollCount' = pollCount + 1 /\ host' = "active")
        /\ host = "torn" => (host' = "torn" /\ pollCount' = pollCount)]_vars

\* The host was torn down after at least one tick had polled.
C10_Witness == host = "torn" /\ pollCount >= 2 /\ ~intervalOn

C12_OpenResetsBadge ==
  [][/\ (~isOpen /\ isOpen') =>
          (unreadCount' = 0 /\ polls' = polls /\ pollCount' = pollCount
           /\ sends' = sends /\ loads' = loads /\ dels' = dels /\ dirs' = dirs)
     /\ (isOpen /\ ~isOpen') =>
          (unreadCount' = unreadCount /\ polls' = polls /\ pollCount' = pollCount)]_vars

\* The view is open with the badge at zero although the last list fetched
\* had unread messages, and a poll is in flight.
C12_Witness ==
  /\ isOpen
  /\ unreadCount = 0
  /\ TotalUnread(polled) > 0
  /\ \E p \in polls : p.stage = "ok"

\* C13 (SpecReply), as claimed: a send request that carries a replyTo id
\* references a message of the conversation it is sent to, and one that is
\* in the open thread when the request is made.
C13_ReplyTargetInThread ==
  [][(SendInvokedStep /\ replyTo # NoReply) =>
        /\ replyTo[1].peer = selectedUserId
        /\ replyTo[1].id \in Ids(messages)]_vars

\* C14 (SpecReply): replyTo holds at most one message; choosing a target
\* makes it the target whatever the previous one was; handling a successful
\* send clears the target; handling a failed send leaves it as it was.
C14_OneReplyTarget ==
  /\ [](Len(replyTo) <= 1)
  /\ [][/\ \A r \in sends : SendSucceededStep(r) => replyTo' = NoReply
        /\ \A r \in sends : SendFailedStep(r) => replyTo' = replyTo
        /\ (replyTo' # replyTo /\ replyTo' # NoReply) =>
              (Len(replyTo') = 1 /\ replyTo'[1] \in Range(messages))]_vars

\* A send that carried a reply target has failed and the target is still
\* set, for a retry.
C14_Witness ==
  /\ sendCount >= 1
  /\ sends = {}
  /\ nextId = FirstNewId
  /\ replyTo # NoReply
  /\ sending = FALSE

\* C15 (SpecSend): when the file input hands handleFileSelect a file, the
\* file is rejected exactly when its size exceeds 10 * 1024 * 1024 bytes: a
\* rejected file leaves the staged draft as it was, an accepted one (a file
\* of exactly the limit included) becomes the draft whatever was staged; no
\* request is issued either way.
C15_FileSizeLimit ==
  [][(fileInput' # fileInput /\ fileInput' # NoFile) =>
        /\ selectedFile' = IF FileSize[fileInput'] > 10 * 1024 * 1024
                              THEN selectedFile ELSE fileInput'
        /\ sends' = sends /\ loads' = loads /\ dels' = dels /\ dirs' = dirs]_vars

\* The file of exactly the limit is staged, and the file one byte larger,
\* picked after it, was rejected.
C15_Witness ==
  /\ selectedFile = "limit.zip"
  /\ fileInput = "big.zip"
  /\ FileSize[selectedFile] = 10485760
  /\ FileSize[fileInput] = 10485761

\* C17 (SpecSend): while the body is empty or blank and no file is staged,
\* no step issues a send request: an attempted send() returns at once,
\* leaving the thread, the compose state and the requests in flight alone.
C17_EmptySendRejected ==
  [][(newMessage \in {"", " "} /\ selectedFile = NoFile) =>
        (sendCount' = sendCount /\ sends' \subseteq sends \cup {r \in sends' : r.stage = "ok"})]_vars

\* The compose area is shown with a blank body and no file while sends are
\* still allowed: Enter calls sendMessage here.
C17_Witness ==
  /\ selectedUserId # NoUser
  /\ newMessage = " "
  /\ selectedFile = NoFile
  /\ ~sending
  /\ sendCount = 1
  /\ sends = {}

LoadFailedStep(l) == l \in loads /\ l.stage = "req" /\ \A q \in loads' : q.n # l.n

\* C18, as claimed: when a load fails the thread is empty afterwards: no
\* message of a conversation opened before stays displayed.
C18_FailedLoadEmptiesThread ==
  [][\A l \in loads : LoadFailedStep(l) => messages' = << >>]_vars

\* C20, as claimed: every message of the open thread belongs to the
\* conversation with the selected counterpart.
C20_ThreadOfSelected ==
  \A i \in DOMAIN messages : messages[i].peer = selectedUserId

\* A step in which fetchData was called, and one in which its catch ran: a
\* failure leaves allUsers empty, a success fills it.
FetchDataInvokedStep == fetchCount' = fetchCount + 1
FetchDataFailedStep(f) == f \in fetches /\ f \notin fetches' /\ adminAllUsers' = << >>

\* C19 (SpecAdmin), as claimed: neither the start of a directory refresh nor
\* its failure changes the conversation list held in memory, in the Chat
\* sidebar and in the AdminChatDashboard alike.
C19_FailedRefreshKeepsList ==
  [][/\ FetchDataInvokedStep => adminConversations' = adminConversations
     /\ \A f \in fetches : FetchDataFailedStep(f) => adminConversations' = adminConversations
     /\ (\E d \in dirs' : d \notin dirs) => conversations' = conversations
     /\ (\E d \in dirs : d \notin dirs') =>
           conversations' \in {conversations, DirectoryOf(srv)}]_vars

\* C25 (SpecSend): the step that handles a successful send puts the confirmed
\* message in the thread and issues exactly one directory request, awaited by
\* that send; no other step issues one, a failed send in particular; and the
\* completion of a directory request, success or failure, leaves the thread
\* as it is and ends the send (sending is false once nothing is pending).
C25_RefreshAfterSend ==
  /\ [][/\ \A r \in sends : SendSucceededStep(r) =>
              /\ dirs' \ dirs = {[cont |-> "send", n |-> r.n]}
              /\ dirs \subseteq dirs'
              /\ r.result[1] \in Range(messages')
        /\ \A r \in sends : SendFailedStep(r) => dirs' = dirs
        /\ dirs' \ dirs # {} => \E r \in sends : SendSucceededStep(r)
        /\ (\E d \in dirs : d \notin dirs') => messages' = messages]_vars
  /\ []((sends = {} /\ dirs = {}) => ~sending)

\* The directory request that follows a successful send is in flight and the
\* confirmed message is in the thread.
C25_Witness ==
  \E d \in dirs :
     /\ d.cont = "send"
     /\ \E i \in DOMAIN messages : messages[i].req = d.n

\* C26, as claimed: no message id occurs twice in the thread.
C26_NoDuplicateIds == NoDuplicateIds(messages)

\* C28 (SpecSend), as claimed: at most one send request is in flight, and
\* sending is true exactly while one is.
C28_OneSendInFlight ==
  /\ Cardinality(sends) <= 1
  /\ sending <=> sends # {}

\* C29 (SpecReply), as claimed: a step that changes the open counterpart
\* discards the compose draft, so no draft is carried over to another
\* counterpart.
C29_SwitchDiscardsDraft ==
  [][selectedUserId' # selectedUserId =>
        (newMessage' = "" /\ selectedFile' = NoFile)]_vars

\* C30 (SpecSend), as claimed: handling a successful send leaves alone a
\* body or an attachment that is not the one the request carried (it was
\* entered while the request was in flight); handling a failed send leaves
\* body, attachment and reply target alone.
C30_ClearsOnlyWhatWasSent ==
  [][/\ \A r \in sends : SendSucceededStep(r) =>
          /\ Trim(newMessage) # r.message => newMessage' = newMessage
          /\ selectedFile # r.file => selectedFile' = selectedFile
          /\ ReplyToId(replyTo) # r.replyTo => replyTo' = replyTo
     /\ \A r \in sends : SendFailedStep(r) =>
          (newMessage' = newMessage /\ selectedFile' = selectedFile /\ replyTo' = replyTo)]_vars

\* A step in which the response of the conversation load l was handled.
LoadSucceededStep(l) == l \in loads /\ l.stage = "ok" /\ \A q \in loads' : q.n # l.n

\* C27 (SpecLoad), as claimed: when the response of a load is handled after
\* the response of a load selected later has been, the selected counterpart
\* and the open thread stay those of the later selection.
C27_LatestSelectionWins ==
  [][\A l \in loads :
       (LoadSucceededStep(l) /\ l.n < loadCount /\ \A q \in loads : q.n <= l.n)
          => (selectedUserId' = selectedUserId /\ messages' = messages)]_vars

\* The render state of the image of message i
ImageState(loadingOf, errorOf, i) ==
  IF loadingOf[i] /\ errorOf[i] THEN "both"
  ELSE IF loadingOf[i] THEN "loading"
  ELSE IF errorOf[i] THEN "error" ELSE "loaded"

\* The positions of the list whose entry matches the search text and passes
\* the category: unread needs unreadCount > 0, recent needs a last message
\* less than 24 hours before now, all needs nothing more.
C21_Kept ==
  {i \in DOMAIN adminConversations :
     LET conv == adminConversations[i] IN
       /\ MatchesSearch(conv, searchTerm)
       /\ filterType = "unread" => conv.unreadCount > 0
       /\ filterType = "recent" =>
            /\ conv.lastMessage # << >>
            /\ now - conv.lastMessage[1] < 24}

\* A step that changes the search text or the category
C21_FilterStep == searchTerm' # searchTerm \/ filterType' # filterType

\* C21 (SpecFilter): the filtered view is the entries of the conversation
\* list at exactly the positions that match the search text and pass the
\* category, in the order of the list; and changing the search text or the
\* category issues no request and leaves the conversation list as it was.
C21_FilterIsDerivedView ==
  /\ [](\E f \in [1 .. Len(filteredConversations) -> C21_Kept] :
          /\ \A j, k \in DOMAIN f : j < k => f[j] < f[k]
          /\ Len(filteredConversations) = Cardinality(C21_Kept)
          /\ \A j \in DOMAIN f : filteredConversations[j] = adminConversations[f[j]])
  /\ [][C21_FilterStep =>
          /\ adminConversations' = adminConversations
          /\ fetches' = fetches /\ fetchCount' = fetchCount
          /\ polls' = polls /\ loads' = loads /\ userReqs' = userReqs]_vars

\* The category is recent and a search text is typed; the list holds an entry
\* whose last message is exactly 24 hours old and a newer one, both matching
\* the search, and the view shows the newer one alone.
C21_Witness ==
  /\ filterType = "recent" /\ searchTerm # << >>
  /\ Len(adminConversations) = 2
  /\ \A i \in 1 .. 2 : MatchesSearch(adminConversations[i], searchTerm)
  /\ adminConversations[1].lastMessage = << now - 24 >>
  /\ adminConversations[2].lastMessage = << now - 23 >>
  /\ filteredConversations = << adminConversations[2] >>

\* C22 (SpecImages): the render state of every image is loading, loaded or
\* error, never loading and error at once; it starts as loading; a step
\* changes the state of one image at most, from loading to loaded or error or
\* from error back to loading; and no such step changes the thread, the
\* requests in flight or anything else of the Chat.
C22_ImageRenderState ==
  /\ [](\A i \in DOMAIN imageLoading : ImageState(imageLoading, imageError, i) # "both")
  /\ [][\A i \in DOMAIN imageLoading :
          LET from == ImageState(imageLoading, imageError, i)
              to == ImageState(imageLoading', imageError', i)
          IN from # to =>
               /\ << from, to >> \in {<< "loading", "loaded" >>, << "loading", "error" >>,
                                      << "error", "loading" >>}
               /\ \A j \in DOMAIN imageLoading :
                     j # i => (imageLoading'[j] = imageLoading[j] /\ imageError'[j] = imageError[j])
               /\ UNCHANGED chatVars]_vars

\* One image has failed, one is loaded and one is loading.
C22_Witness ==
  /\ DOMAIN imageLoading = ImageIds
  /\ ImageState(imageLoading, imageError, 1) = "error"
  /\ ImageState(imageLoading, imageError, 2) = "loaded"
  /\ ImageState(imageLoading, imageError, 3) = "loading"

\* C23 (SpecReply): a click on Edit shows the notice that editing is not
\* there yet and nothing else: no request is issued, and the thread, the
\* draft (body and staged file) and the reply target stay as they were.
C23_EditIsAStub ==
  [][editNotices' # editNotices =>
        /\ editNotices' = editNotices + 1
        /\ UNCHANGED << messages, newMessage, selectedFile, replyTo, selectedUserId >>
        /\ UNCHANGED << sends, loads, dels, dirs, sendCount, loadCount, delCount, srv >>]_vars

\* Edit has been clicked with a draft typed and a reply target chosen.
C23_Witness ==
  /\ editNotices >= 1
  /\ newMessage = "hi"
  /\ replyTo # NoReply
  /\ sendCount = 0

\* C24 (SpecUsers): for a non-privileged actor no getAllUsers request is ever
\* in flight, no user list is ever stored and the user list is never open;
\* a getAllUsers request is never issued after the mount; and the step that
\* picks a user from the list selects that user, closes the list, issues no
\* request, and opens an empty thread when the user has no messages.
C24_UserListForAdminOnly ==
  /\ [](~isAdmin => (userReqs = {} /\ allUsers = << >> /\ ~showUserList))
  /\ [][/\ userReqs' \subseteq userReqs
        /\ isAdmin' = isAdmin
        /\ (showUserList /\ ~showUserList' /\ selectedUserId' # selectedUserId) =>
              /\ isAdmin
              /\ selectedUserId' \in Range(allUsers)
              /\ srv[selectedUserId'] = << >> => messages' = << >>
              /\ UNCHANGED << sends, loads, dels, dirs, userReqs,
                              sendCount, loadCount, delCount >>]_vars

\* A privileged actor has the empty thread of u2 open, a user with no
\* stored messages, without having loaded any conversation.
C24_Witness ==
  /\ isAdmin
  /\ selectedUserId = "u2"
  /\ srv["u2"] = << >>
  /\ messages = << >>
  /\ loadCount = 0
  /\ ~showUserList

====
